---- MODULE Spec2Model ----
(***************************************************************************)
(* SentinelScore (src/src/main.cpp): CSV ingest of radar contacts, a       *)
(* weighted threat score per contact, a descending sort and a threshold    *)
(* suggestion per ranked row.                                              *)
(*                                                                         *)
(* Text is modelled as TLA+ strings read character by character, so trim,  *)
(* the comma split, parseIFF and std::stod are computed as the code and    *)
(* the C++ library compute them.  A double is modelled as an exact decimal *)
(* m * 10^e (or NaN, +inf, -inf); arithmetic of score is fixed point.      *)
(***************************************************************************)
EXTENDS Integers, Sequences, FiniteSets, TLC

VARIABLES
    canOpen,      \* whether std::ifstream in(path) succeeds
    lines,        \* the lines of the input file, as std::getline yields them
    pc,           \* position of main: "start","read","loaded","scored","sorted","done"
    idx,          \* number of lines consumed by the while loop of loadCSV
    maybeHeader,  \* loadCSV's local flag
    out,          \* loadCSV's vector<Contact>
    outSrc,       \* history: for each element of out, the index of its source line
    err,          \* std::cerr: sequence of [kind, line] diagnostics
    ranked,       \* main's vector<pair<Contact,double>>
    rankedSrc,    \* history: source line index of each element of ranked
    table,        \* rows written by printTable
    exitCode,     \* main's return value, -1 while running
    argA, argB,   \* arguments of the pure-function harness
    resA, resB    \* results of the pure-function harness

vars == <<canOpen, lines, pc, idx, maybeHeader, out, outSrc, err, ranked,
          rankedSrc, table, exitCode, argA, argB, resA, resB>>

-----------------------------------------------------------------------------
(* Bounds of the model *)

MaxLines == 3

-----------------------------------------------------------------------------
(* Characters and strings *)

Ch(s, i) == SubSeq(s, i, i)

IsSpace(c) == c \in {" ", "\t", "\r", "\n"}

IsDigit(c) == c \in {"0", "1", "2", "3", "4", "5", "6", "7", "8", "9"}

DigitVal(c) == CHOOSE d \in 0..9 : Ch("0123456789", d + 1) = c

\* std::toupper on one character (C locale)
toupper(c) ==
    LET lower == "abcdefghijklmnopqrstuvwxyz"
        upper == "ABCDEFGHIJKLMNOPQRSTUVWXYZ"
    IN IF \E k \in 1..26 : Ch(lower, k) = c
       THEN Ch(upper, CHOOSE k \in 1..26 : Ch(lower, k) = c)
       ELSE c

RECURSIVE UpperFrom(_, _)
UpperFrom(s, i) ==
    IF i > Len(s) THEN "" ELSE toupper(Ch(s, i)) \o UpperFrom(s, i + 1)

\* s.find_first_not_of(" \t\r\n") from position i; 0 stands for npos
RECURSIVE find_first_not_of(_, _)
find_first_not_of(s, i) ==
    IF i > Len(s) THEN 0
    ELSE IF IsSpace(Ch(s, i)) THEN find_first_not_of(s, i + 1) ELSE i

\* s.find_last_not_of(" \t\r\n") from position i downwards; 0 stands for npos
RECURSIVE find_last_not_of(_, _)
find_last_not_of(s, i) ==
    IF i < 1 THEN 0
    ELSE IF IsSpace(Ch(s, i)) THEN find_last_not_of(s, i - 1) ELSE i

trim(s) ==
    LET b == find_first_not_of(s, 1)
        e == find_last_not_of(s, Len(s))
    IN IF b = 0 THEN "" ELSE SubSeq(s, b, e)

\* position of the next ',' at or after i; 0 when there is none
RECURSIVE FindComma(_, _)
FindComma(s, i) ==
    IF i > Len(s) THEN 0
    ELSE IF Ch(s, i) = "," THEN i ELSE FindComma(s, i + 1)

\* while (std::getline(ss, tok, ',')) cols.push_back(trim(tok));
\* pos is the stream position: getline fails once the stream is at its end,
\* so nothing is pushed for the text after a final ','.
RECURSIVE SplitFrom(_, _)
SplitFrom(s, pos) ==
    IF pos > Len(s) THEN <<>>
    ELSE LET j == FindComma(s, pos)
         IN IF j = 0
            THEN <<trim(SubSeq(s, pos, Len(s)))>>
            ELSE <<trim(SubSeq(s, pos, j - 1))>> \o SplitFrom(s, j + 1)

SplitCols(line) == SplitFrom(line, 1)

-----------------------------------------------------------------------------
(* IFF *)

nullopt == "nullopt"

IffOfUpper(t) ==
    IF t = "FRIEND" \/ t = "F" THEN "Friend"
    ELSE IF t = "FOE" \/ t = "HOSTILE" \/ t = "H" THEN "Foe"
    ELSE IF t = "UNKNOWN" \/ t = "U" THEN "Unknown"
    ELSE nullopt

parseIFF(token) == IffOfUpper(UpperFrom(token, 1))

-----------------------------------------------------------------------------
(* Doubles: [k |-> "fin", m, e] is m * 10^e with m free of trailing zeros;  *)
(* "nan", "inf" and "ninf" are the non-finite values.                       *)

RECURSIVE Pow10(_)
Pow10(n) == IF n <= 0 THEN 1 ELSE 10 * Pow10(n - 1)

Abs(x) == IF x < 0 THEN -x ELSE x

RECURSIVE NumDigits(_)
NumDigits(m) == IF Abs(m) < 10 THEN 1 ELSE 1 + NumDigits(Abs(m) \div 10)

RECURSIVE Norm(_, _)
Norm(m, e) ==
    IF m = 0 THEN [k |-> "fin", m |-> 0, e |-> 0]
    ELSE IF m % 10 = 0 THEN Norm(m \div 10, e + 1)
    ELSE [k |-> "fin", m |-> m, e |-> e]

NaN  == [k |-> "nan",  m |-> 0, e |-> 0]
PInf == [k |-> "inf",  m |-> 0, e |-> 0]
NInf == [k |-> "ninf", m |-> 0, e |-> 0]
Throws == [k |-> "throw", m |-> 0, e |-> 0]

isfinite(d) == d.k = "fin"

\* run of decimal digits of s from position i: value, count, next position
RECURSIVE ScanDigits(_, _, _, _)
ScanDigits(s, i, val, n) ==
    IF i <= Len(s) /\ IsDigit(Ch(s, i))
    THEN ScanDigits(s, i + 1, 10 * val + DigitVal(Ch(s, i)), n + 1)
    ELSE [val |-> val, n |-> n, next |-> i]

\* largest and smallest decimal exponent of a normal double
DBL_MAX_10_EXP == 308
DBL_MIN_10_EXP == -307

\* decimal order of magnitude of a non-zero decimal
Mag(d) == NumDigits(d.m) + d.e - 1

\* a result outside the range of double throws std::out_of_range
StodRange(d) ==
    IF d.m # 0 /\ (Mag(d) > DBL_MAX_10_EXP \/ Mag(d) < DBL_MIN_10_EXP)
    THEN Throws ELSE d

\* the value of digits val with fn of them after the point and exponent ex
StodValue(neg, val, fn, ex) ==
    StodRange(Norm(IF neg THEN -val ELSE val, ex - fn))

SignedExp(minus, ep) == IF ep.n = 0 THEN 0 ELSE IF minus THEN -ep.val ELSE ep.val

\* the exponent digits from position j, after an optional sign
StodExpDigits(s, j) ==
    IF j <= Len(s) /\ Ch(s, j) \in {"+", "-"}
    THEN SignedExp(Ch(s, j) = "-", ScanDigits(s, j + 1, 0, 0))
    ELSE SignedExp(FALSE, ScanDigits(s, j, 0, 0))

\* after the mantissa (ni integer digits, fp the digits through the
\* fraction): no digit at all is no conversion, std::invalid_argument
StodExp(s, neg, ni, fp) ==
    IF ni + fp.n = 0 THEN Throws
    ELSE IF fp.next <= Len(s) /\ Ch(s, fp.next) \in {"e", "E"}
    THEN StodValue(neg, fp.val, fp.n, StodExpDigits(s, fp.next + 1))
    ELSE StodValue(neg, fp.val, fp.n, 0)

StodFrac(s, neg, ip) ==
    IF ip.next <= Len(s) /\ Ch(s, ip.next) = "."
    THEN StodExp(s, neg, ip.n, ScanDigits(s, ip.next + 1, ip.val, 0))
    ELSE StodExp(s, neg, ip.n, [val |-> ip.val, n |-> 0, next |-> ip.next])

\* the three characters from position i, in upper case
Word3(s, i) == IF i + 2 <= Len(s) THEN UpperFrom(SubSeq(s, i, i + 2), 1) ELSE ""

StodWord(s, neg, i, w3) ==
    IF w3 = "INF" THEN (IF neg THEN NInf ELSE PInf)
    ELSE IF w3 = "NAN" THEN NaN
    ELSE StodFrac(s, neg, ScanDigits(s, i, 0, 0))

StodSign(s, b) ==
    IF b = 0 THEN Throws
    ELSE IF Ch(s, b) \in {"+", "-"}
    THEN StodWord(s, Ch(s, b) = "-", b + 1, Word3(s, b + 1))
    ELSE StodWord(s, FALSE, b, Word3(s, b))

\* std::stod(s): strtod's longest valid prefix after leading white space
\* (optional sign, then inf, nan, or digits with an optional fraction and
\* exponent).  No conversion throws std::invalid_argument, a result out of
\* the range of double throws std::out_of_range; trailing text is ignored.
stod(s) == StodSign(s, find_first_not_of(s, 1))

OrDefault(r, def) == IF r.k = "throw" THEN def ELSE r

\* try { return std::stod(s); } catch (...) { return def; }
toDouble(s, def) == OrDefault(stod(s), def)

RangeDefault    == Norm(1, 9)    \* 1e9
ClosingDefault  == Norm(0, 0)    \* 0.0
AltitudeDefault == Norm(0, 0)    \* 0.0
RcsDefault      == Norm(1, 0)    \* 1.0

-----------------------------------------------------------------------------
(* Fixed-point view of a double, used by the arithmetic and comparisons of  *)
(* score and suggestion: [k |-> "fin", v] is v/100, exact for values with   *)
(* at most two decimals and magnitude below 10^7; a finite value of larger  *)
(* magnitude is "huge" or "nhuge" and lies beyond every threshold.          *)

Num(k, v) == [k |-> k, v |-> v]

Fx(d) ==
    IF d.k # "fin" THEN Num(d.k, 0)
    ELSE IF d.m = 0 THEN Num("fin", 0)
    ELSE IF NumDigits(d.m) + d.e > 7
         THEN (IF d.m > 0 THEN Num("huge", 0) ELSE Num("nhuge", 0))
    ELSE IF d.e + 2 >= 0 THEN Num("fin", d.m * Pow10(d.e + 2))
    ELSE Num("fin", d.m \div Pow10(-(d.e + 2)))

Rank(a) ==
    CASE a.k = "ninf"  -> 0
      [] a.k = "nhuge" -> 1
      [] a.k = "fin"   -> 2
      [] a.k = "huge"  -> 3
      [] a.k = "inf"   -> 4
      [] OTHER         -> 5

\* a < b on doubles: false whenever an operand is NaN
Lt(a, b) ==
    IF a.k = "nan" \/ b.k = "nan" THEN FALSE
    ELSE IF Rank(a) # Rank(b) THEN Rank(a) < Rank(b)
    ELSE a.k = "fin" /\ a.v < b.v

Gt(a, b) == Lt(b, a)

\* std::min(a, b) is (b < a) ? b : a and std::max(a, b) is (a < b) ? b : a
stdmin(a, b) == IF Lt(b, a) THEN b ELSE a
stdmax(a, b) == IF Lt(a, b) THEN b ELSE a

\* clamp without its lower limit
clamp_NoLower(x, lo, hi) == stdmin(hi, x)

clamp(x, lo, hi) == stdmax(lo, stdmin(hi, x))

\* 1000 * log10 of a digit 1..9
LogTab(n) ==
    CASE n = 1 -> 0   [] n = 2 -> 301 [] n = 3 -> 477
      [] n = 4 -> 602 [] n = 5 -> 699 [] n = 6 -> 778
      [] n = 7 -> 845 [] n = 8 -> 903 [] n = 9 -> 954

\* 1000 * std::log10(d) for d > 0: log10(m) + e, log10(m) tabulated on the
\* leading digit of m (exact to three decimals for one-digit mantissas)
Log10Milli(d) ==
    IF d.k = "inf" THEN Num("inf", 0)
    ELSE LET nd == NumDigits(d.m)
         IN Num("fin", LogTab(d.m \div Pow10(nd - 1)) + 1000 * (nd - 1 + d.e))

-----------------------------------------------------------------------------
(* Scoring.  Scores are in units of 10^-5.                                  *)

\* struct Weights: w_closing in hundredths, w_rcs in tenths, w_alt_low in
\* thousandths
Weights ==
    [w_range_inv |-> 60, w_closing_x100 |-> 25, w_rcs_x10 |-> 4,
     w_iff_friend |-> -40, w_iff_unknown |-> 15, w_iff_foe |-> 30,
     w_alt_low_x1000 |-> 4]

\* inv_range in units of 10^-5
inv_range(c) ==
    LET r == Fx(c.range_km)
    IN IF Gt(r, Num("fin", 5))
       THEN (IF r.k = "fin" THEN 10000000 \div r.v ELSE 0)
       ELSE 20 * 100000

s_range(c, w) == w.w_range_inv * inv_range(c)

\* closing_norm in units of 1/40000
closing_norm(c) == clamp(Fx(c.closing_mps), Num("fin", 0), Num("fin", 40000)).v

s_closing(c, w) == (w.w_closing_x100 * closing_norm(c) * 5) \div 2

\* rcs_log in thousandths
rcs_log(c) ==
    Log10Milli(IF Lt(Num("fin", 1), Fx(c.rcs_m2)) THEN c.rcs_m2 ELSE Norm(1, -2))

s_rcs(c, w) ==
    LET l == rcs_log(c)
    IN IF l.k = "inf" THEN Num("inf", 0)
       ELSE Num("fin", w.w_rcs_x10 * (l.v + 2000) * 250)

\* 20000.0 - clamp(altitude_m, 0.0, 20000.0), in hundredths of a metre
alt_term(c) == 2000000 - clamp(Fx(c.altitude_m), Num("fin", 0), Num("fin", 2000000)).v

s_alt(c, w) == (w.w_alt_low_x1000 * alt_term(c)) \div 200

s_iff(c, w) ==
    CASE c.iff = "Friend"  -> w.w_iff_friend * 100000
      [] c.iff = "Unknown" -> w.w_iff_unknown * 100000
      [] c.iff = "Foe"     -> w.w_iff_foe * 100000

score(c, w) ==
    IF s_rcs(c, w).k = "inf" THEN Num("inf", 0)
    ELSE Num("fin", s_range(c, w) + s_closing(c, w) + s_rcs(c, w).v
                    + s_alt(c, w) + s_iff(c, w))

-----------------------------------------------------------------------------
(* Engagement suggestion *)

\* suggestion with thresholds that also match on the boundary
suggestion_NonStrict(c, riskScore) ==
    IF c.iff = "Friend" THEN "IGNORE (FRIEND)"
    ELSE IF /\ ~Lt(riskScore, Num("fin", 120 * 100000))
            /\ ~Gt(Fx(c.range_km), Num("fin", 2500))
            /\ ~Lt(Fx(c.closing_mps), Num("fin", 10000))
         THEN "INTERCEPT"
    ELSE IF /\ ~Lt(riskScore, Num("fin", 80 * 100000))
            /\ ~Gt(Fx(c.range_km), Num("fin", 5000))
         THEN "ELEVATED MONITOR"
    ELSE "MONITOR"

suggestion(c, riskScore) ==
    IF c.iff = "Friend" THEN "IGNORE (FRIEND)"
    ELSE IF /\ Gt(riskScore, Num("fin", 120 * 100000))
            /\ Lt(Fx(c.range_km), Num("fin", 2500))
            /\ Gt(Fx(c.closing_mps), Num("fin", 10000))
         THEN "INTERCEPT"
    ELSE IF /\ Gt(riskScore, Num("fin", 80 * 100000))
            /\ Lt(Fx(c.range_km), Num("fin", 5000))
         THEN "ELEVATED MONITOR"
    ELSE "MONITOR"

-----------------------------------------------------------------------------
(* CSV ingest: loadCSV *)

\* the header test of the first candidate line
looksHeader(cols) ==
    \/ parseIFF(cols[2]) = nullopt
    \/ cols[3] = "range_km"
    \/ cols[4] = "closing_mps"

\* Contact c { cols[0], *iff, toDouble(cols[2], 1e9), ... }
MakeContact(cols, iff) ==
    [id          |-> cols[1],
     iff         |-> iff,
     range_km    |-> toDouble(cols[3], RangeDefault),
     closing_mps |-> toDouble(cols[4], ClosingDefault),
     altitude_m  |-> toDouble(cols[5], AltitudeDefault),
     rcs_m2      |-> toDouble(cols[6], RcsDefault)]

\* an open failure reported as an empty result
OpenFail_ReturnsOne ==
    /\ pc = "start"
    /\ ~canOpen
    /\ err' = Append(err, [kind |-> "ERROR", line |-> "", src |-> 0])
    /\ exitCode' = 1
    /\ pc' = "done"
    /\ UNCHANGED <<canOpen, lines, idx, maybeHeader, out, outSrc, ranked,
                   rankedSrc, table, argA, argB, resA, resB>>

\* std::ifstream in(path) fails: loadCSV throws, main catches and returns 2
OpenFail ==
    /\ pc = "start"
    /\ ~canOpen
    /\ err' = Append(err, [kind |-> "ERROR", line |-> "", src |-> 0])
    /\ exitCode' = 2
    /\ pc' = "done"
    /\ UNCHANGED <<canOpen, lines, idx, maybeHeader, out, outSrc, ranked,
                   rankedSrc, table, argA, argB, resA, resB>>

OpenOk ==
    /\ pc = "start"
    /\ canOpen
    /\ pc' = "read"
    /\ UNCHANGED <<canOpen, lines, idx, maybeHeader, out, outSrc, err, ranked,
                   rankedSrc, table, exitCode, argA, argB, resA, resB>>

\* a loop body that skips a row with an invalid IFF without a diagnostic
RowAction_SilentInvalid(cols, mh) ==
    IF Len(cols) >= 6 /\ (mh \/ parseIFF(cols[2]) = nullopt) /\ looksHeader(cols)
    THEN "header"
    ELSE IF Len(cols) < 6 THEN "malformed"
    ELSE "contact"

\* what the loop body does with a split row, given maybeHeader:
\* "header" (skipped silently), "malformed", "invalid" or "contact"
RowAction(cols, mh) ==
    IF mh /\ Len(cols) >= 6 /\ looksHeader(cols) THEN "header"
    ELSE IF Len(cols) < 6 THEN "malformed"
    ELSE IF parseIFF(cols[2]) = nullopt THEN "invalid"
    ELSE "contact"

\* the rest of the loop body, for a row split into cols
HandleRow(line, cols, act) ==
    /\ maybeHeader' = FALSE
    /\ CASE act = "header" ->
              UNCHANGED <<out, outSrc, err>>
         [] act = "malformed" ->
              /\ err' = Append(err, [kind |-> "Skipping malformed row",
                                     line |-> line, src |-> idx + 1])
              /\ UNCHANGED <<out, outSrc>>
         [] act = "invalid" ->
              /\ err' = Append(err, [kind |-> "Skipping row with invalid IFF",
                                     line |-> line, src |-> idx + 1])
              /\ UNCHANGED <<out, outSrc>>
         [] act = "contact" ->
              /\ out' = Append(out, MakeContact(cols, parseIFF(cols[2])))
              /\ outSrc' = Append(outSrc, idx + 1)
              /\ UNCHANGED err

\* the loop body for the trimmed line
HandleLine(line) ==
    IF line = "" \/ Ch(line, 1) = "#"
    THEN UNCHANGED <<maybeHeader, out, outSrc, err>>
    ELSE HandleRow(line, SplitCols(line), RowAction(SplitCols(line), maybeHeader))

\* one iteration of while (std::getline(in, line)) { ... }
ReadLine ==
    /\ pc = "read"
    /\ idx < Len(lines)
    /\ idx' = idx + 1
    /\ HandleLine(trim(lines[idx + 1]))
    /\ UNCHANGED <<canOpen, lines, pc, ranked, rankedSrc, table, exitCode,
                   argA, argB, resA, resB>>

\* getline fails at the end of the input: return out
LoadDone ==
    /\ pc = "read"
    /\ idx = Len(lines)
    /\ pc' = "loaded"
    /\ UNCHANGED <<canOpen, lines, idx, maybeHeader, out, outSrc, err, ranked,
                   rankedSrc, table, exitCode, argA, argB, resA, resB>>

-----------------------------------------------------------------------------
(* main *)

\* if (contacts.empty()) { ...; return 1; }
NoContacts ==
    /\ pc = "loaded"
    /\ out = <<>>
    /\ err' = Append(err, [kind |-> "No contacts loaded", line |-> "", src |-> 0])
    /\ exitCode' = 1
    /\ pc' = "done"
    /\ UNCHANGED <<canOpen, lines, idx, maybeHeader, out, outSrc, ranked,
                   rankedSrc, table, argA, argB, resA, resB>>

\* for (const auto& c : contacts) ranked.emplace_back(c, score(c, w));
ScorePairs(contacts) ==
    [i \in 1..Len(contacts) |-> [c |-> contacts[i], s |-> score(contacts[i], Weights)]]

ScoreAll ==
    /\ pc = "loaded"
    /\ out # <<>>
    /\ ranked' = ScorePairs(out)
    /\ rankedSrc' = outSrc
    /\ pc' = "scored"
    /\ UNCHANGED <<canOpen, lines, idx, maybeHeader, out, outSrc, err, table,
                   exitCode, argA, argB, resA, resB>>

\* a comparator that sorts ascending
comp_Ascending(a, b) == Lt(a.s, b.s)

\* the comparator of std::sort: a.second > b.second
comp(a, b) == Gt(a.s, b.s)

\* std::sort(ranked.begin(), ranked.end(), comp): some rearrangement in which
\* no later element goes before an earlier one; the order of equivalent
\* elements is not specified.
SortedBy(r) == \A i, j \in 1..Len(r) : i < j => ~comp(r[j], r[i])

Sort ==
    /\ pc = "scored"
    /\ \E p \in Permutations(1..Len(ranked)) :
          /\ ranked' = [i \in 1..Len(ranked) |-> ranked[p[i]]]
          /\ rankedSrc' = [i \in 1..Len(ranked) |-> rankedSrc[p[i]]]
          /\ SortedBy(ranked')
    /\ pc' = "sorted"
    /\ UNCHANGED <<canOpen, lines, idx, maybeHeader, out, outSrc, err, table,
                   exitCode, argA, argB, resA, resB>>

\* printTable(ranked): one row per element, rank counted from 1
TableRows(r) ==
    [i \in 1..Len(r) |->
        [rank |-> i, c |-> r[i].c, s |-> r[i].s, sug |-> suggestion(r[i].c, r[i].s)]]

PrintTable ==
    /\ pc = "sorted"
    /\ table' = TableRows(ranked)
    /\ exitCode' = 0
    /\ pc' = "done"
    /\ UNCHANGED <<canOpen, lines, idx, maybeHeader, out, outSrc, err, ranked,
                   rankedSrc, argA, argB, resA, resB>>

-----------------------------------------------------------------------------
(* Inputs *)

SampleLines ==
    { "id,iff,range_km,closing_mps,altitude_m,rcs_m2",
      "A1,Friend,10,50,1000,5",
      " B2 , foe , 0.04 , 300 , 100 , 100 ",
      "# note",
      "  ",
      "C3,H,abc,1",
      "D4,xyz,10,50,1000,5",
      "E5,U,range_km,,x,1e999",
      "F6,H,nan,inf,-inf,12abc",
      "G7,U,1,2,3,",
      "H8,u,30,closing_mps,0,1,extra" }

RECURSIVE SeqsUpTo(_, _)
SeqsUpTo(S, n) ==
    IF n = 0 THEN {<<>>}
    ELSE LET shorter == SeqsUpTo(S, n - 1)
         IN shorter \cup {Append(q, x) : q \in shorter, x \in S}

Init ==
    /\ canOpen \in BOOLEAN
    /\ lines \in SeqsUpTo(SampleLines, MaxLines)
    /\ ~canOpen => lines = <<>>
    /\ pc = "start"
    /\ idx = 0
    /\ maybeHeader = TRUE
    /\ out = <<>>
    /\ outSrc = <<>>
    /\ err = <<>>
    /\ ranked = <<>>
    /\ rankedSrc = <<>>
    /\ table = <<>>
    /\ exitCode = -1
    /\ argA = 0 /\ argB = 0 /\ resA = 0 /\ resB = 0

Next ==
    \/ OpenFail
    \/ OpenOk
    \/ ReadLine
    \/ LoadDone
    \/ NoContacts
    \/ ScoreAll
    \/ Sort
    \/ PrintTable

Spec == Init /\ [][Next]_vars

-----------------------------------------------------------------------------
(* Harness of suggestion: the arguments are drawn at Init, the action is    *)
(* one call.                                                                *)

Contact(iff, r, c, a, x) ==
    [id |-> "T", iff |-> iff, range_km |-> stod(r), closing_mps |-> stod(c),
     altitude_m |-> stod(a), rcs_m2 |-> stod(x)]

SuggestContacts ==
    { Contact(iff, r, c, "1000", "5") :
        iff \in {"Friend", "Foe", "Unknown"},
        r \in {"-1", "24.99", "25", "49.99", "50", "1e9", "nan"},
        c \in {"-inf", "100", "100.01", "inf", "nan"} }

SuggestScores ==
    { Num("fin", v) : v \in {-4000000, 8000000, 8000001, 12000000, 12000001} }
        \cup {Num("inf", 0)}

HarnessIdle ==
    /\ canOpen = FALSE /\ lines = <<>> /\ idx = 0 /\ maybeHeader = TRUE
    /\ out = <<>> /\ outSrc = <<>> /\ err = <<>> /\ ranked = <<>>
    /\ rankedSrc = <<>> /\ table = <<>> /\ exitCode = -1

InitSuggest ==
    /\ HarnessIdle
    /\ pc = "call"
    /\ argA \in SuggestContacts
    /\ argB \in SuggestScores
    /\ resA = 0 /\ resB = 0

ApplySuggestion ==
    /\ pc = "call"
    /\ resA' = suggestion(argA, argB)
    /\ pc' = "ret"
    /\ UNCHANGED <<canOpen, lines, idx, maybeHeader, out, outSrc, err, ranked,
                   rankedSrc, table, exitCode, argA, argB, resB>>

NextSuggest == ApplySuggestion

SpecSuggest == InitSuggest /\ [][NextSuggest]_vars

-----------------------------------------------------------------------------
(* Harness of score: two Contacts that differ in one field, one call each.  *)

ScoreTerms(c) ==
    [range   |-> s_range(c, Weights),
     closing |-> s_closing(c, Weights),
     rcs     |-> s_rcs(c, Weights),
     alt     |-> s_alt(c, Weights),
     iff     |-> s_iff(c, Weights),
     total   |-> score(c, Weights)]

RangeGrid   == {stod(t) : t \in {"-1", "0", "0.05", "0.08", "0.1", "10", "25", "1e9"}}
ClosingGrid == {stod(t) : t \in {"-50", "0", "100", "150", "400", "500"}}
AltGrid     == {stod(t) : t \in {"-10", "0", "500", "20000", "30000"}}
RcsGrid     == {stod(t) : t \in {"0.001", "0.01", "0.1", "2", "100"}}

ScoreContacts ==
    [id : {"T"}, iff : {"Friend", "Foe"}, range_km : RangeGrid,
     closing_mps : ClosingGrid, altitude_m : AltGrid, rcs_m2 : RcsGrid]

Variants(c) ==
    ({[c EXCEPT !.range_km = v] : v \in RangeGrid}
        \cup {[c EXCEPT !.closing_mps = v] : v \in ClosingGrid}
        \cup {[c EXCEPT !.altitude_m = v] : v \in AltGrid}
        \cup {[c EXCEPT !.rcs_m2 = v] : v \in RcsGrid}) \ {c}

InitScore ==
    /\ HarnessIdle
    /\ pc = "call"
    /\ argA \in ScoreContacts
    /\ argB \in Variants(argA)
    /\ resA = 0 /\ resB = 0

ApplyScore ==
    /\ pc = "call"
    /\ resA' = ScoreTerms(argA)
    /\ resB' = ScoreTerms(argB)
    /\ pc' = "ret"
    /\ UNCHANGED <<canOpen, lines, idx, maybeHeader, out, outSrc, err, ranked,
                   rankedSrc, table, exitCode, argA, argB>>

NextScore == ApplyScore

SpecScore == InitScore /\ [][NextScore]_vars

-----------------------------------------------------------------------------
(* Vocabulary of the properties: the rows of the input as text.             *)

\* the comma-separated fields of a row, each trimmed, an empty last field
\* included
RECURSIVE FieldsFrom(_, _)
FieldsFrom(s, pos) ==
    LET j == FindComma(s, pos)
    IN IF j = 0
       THEN <<trim(SubSeq(s, pos, Len(s)))>>
       ELSE <<trim(SubSeq(s, pos, j - 1))>> \o FieldsFrom(s, j + 1)

Row(i) == trim(lines[i])

RowFields(i) == FieldsFrom(Row(i), 1)

\* a non-empty, non-comment line
IsCandidate(i) == Row(i) # "" /\ Ch(Row(i), 1) # "#"

FirstCandidate ==
    IF \E i \in 1..Len(lines) : IsCandidate(i)
    THEN CHOOSE i \in 1..Len(lines) :
            IsCandidate(i) /\ \A j \in 1..(i - 1) : ~IsCandidate(j)
    ELSE 0

Recognised(tok) ==
    UpperFrom(tok, 1) \in {"FRIEND", "F", "FOE", "HOSTILE", "H", "UNKNOWN", "U"}

\* a data row: at least 6 columns and a recognised classification
IsDataRow(i) ==
    IsCandidate(i) /\ Len(RowFields(i)) >= 6 /\ Recognised(RowFields(i)[2])

\* the first candidate line, when the header test takes it
TakenAsHeader(i) ==
    /\ i = FirstCandidate
    /\ Len(RowFields(i)) >= 6
    /\ \/ ~Recognised(RowFields(i)[2])
       \/ RowFields(i)[3] = "range_km"
       \/ RowFields(i)[4] = "closing_mps"

HasContact(i) == \E k \in 1..Len(outSrc) : outSrc[k] = i

ContactOf(i) == out[CHOOSE k \in 1..Len(outSrc) : outSrc[k] = i]

DiagCount(i) == Cardinality({k \in 1..Len(err) : err[k].src = i})

\* text that std::stod rejects
Unparsable(t) == stod(t).k = "throw"

\* text that is, as a whole, a decimal numeral with a finite value
IsFiniteNumeral(t) ==
    LET i1   == IF Len(t) >= 1 /\ Ch(t, 1) \in {"+", "-"} THEN 2 ELSE 1
        ip   == ScanDigits(t, i1, 0, 0)
        dot  == ip.next <= Len(t) /\ Ch(t, ip.next) = "."
        fp   == IF dot THEN ScanDigits(t, ip.next + 1, 0, 0)
                       ELSE [val |-> 0, n |-> 0, next |-> ip.next]
        hasE == fp.next <= Len(t) /\ Ch(t, fp.next) \in {"e", "E"}
        j0   == fp.next + 1
        j1   == IF hasE /\ j0 <= Len(t) /\ Ch(t, j0) \in {"+", "-"} THEN j0 + 1 ELSE j0
        ep   == IF hasE THEN ScanDigits(t, j1, 0, 0)
                        ELSE [val |-> 0, n |-> 1, next |-> fp.next]
    IN /\ ip.n + fp.n > 0
       /\ ep.n > 0
       /\ ep.next = Len(t) + 1
       /\ stod(t).k = "fin"

NumericDefaults == <<RangeDefault, ClosingDefault, AltitudeDefault, RcsDefault>>

\* the value a Contact holds for column j (3..6 of the row, counted from 1)
NumericField(c, j) ==
    CASE j = 3 -> c.range_km
      [] j = 4 -> c.closing_mps
      [] j = 5 -> c.altitude_m
      [] j = 6 -> c.rcs_m2

-----------------------------------------------------------------------------
(* C1 *)

\* C1: every row read so far that has its numeric columns, a recognised
\* classification and an unparsable numeric field has a Contact in out, and
\* that Contact holds the field's default for every unparsable field.
C1_UnparsableNeverDiscards ==
    \A i \in 1..idx :
        (IsDataRow(i) /\ \E j \in 3..6 : Unparsable(RowFields(i)[j]))
            => /\ HasContact(i)
               /\ \A j \in 3..6 :
                     Unparsable(RowFields(i)[j])
                        => NumericField(ContactOf(i), j) = NumericDefaults[j - 2]

-----------------------------------------------------------------------------
(* C2 *)

\* the literal column names of a header line
HasHeaderNames(i) ==
    /\ Len(RowFields(i)) >= 6
    /\ RowFields(i)[3] = "range_km" \/ RowFields(i)[4] = "closing_mps"

\* C2 as stated: every row read so far with fewer than 6 columns, and every
\* data row (one that does not carry the header's column names) with an
\* unrecognised classification, has exactly one diagnostic, whatever its
\* position.
C2_DiagnosticForEveryDiscard ==
    \A i \in 1..idx :
        (IsCandidate(i) /\ (\/ Len(RowFields(i)) < 6
                            \/ (~Recognised(RowFields(i)[2]) /\ ~HasHeaderNames(i))))
            => DiagCount(i) = 1

\* C2 amended: every row read so far with fewer than 6 columns, and every
\* row with an unrecognised classification other than the first candidate
\* line, has exactly one diagnostic; no row has more than one.
C2_DiagnosticExceptFirstCandidate ==
    /\ \A i \in 1..idx :
          (IsCandidate(i) /\ (\/ Len(RowFields(i)) < 6
                              \/ (~Recognised(RowFields(i)[2]) /\ i # FirstCandidate)))
              => DiagCount(i) = 1
    /\ \A i \in 1..Len(lines) : DiagCount(i) <= 1

\* a later row with an unrecognised classification was discarded with its
\* diagnostic after the first candidate line was read
C2_Witness ==
    \E i \in 1..idx :
        /\ IsCandidate(i) /\ i > FirstCandidate
        /\ Len(RowFields(i)) >= 6 /\ ~Recognised(RowFields(i)[2])
        /\ DiagCount(i) = 1

-----------------------------------------------------------------------------
(* C3 *)

\* C3: the run ends in exactly one of: exit 2, nothing loaded, no table,
\* when the source cannot be opened; exit 1, no table, when it was read and
\* no Contact survived; exit 0 with one table row per Contact when at least
\* one survived.  Before the end nothing is printed and no code returned.
C3_ExitOutcomes ==
    /\ pc # "done" => (exitCode = -1 /\ table = <<>>)
    /\ pc = "done" =>
          \/ exitCode = 2 /\ ~canOpen /\ out = <<>> /\ table = <<>>
          \/ exitCode = 1 /\ canOpen /\ idx = Len(lines) /\ out = <<>> /\ table = <<>>
          \/ exitCode = 0 /\ canOpen /\ idx = Len(lines) /\ out # <<>>
                /\ Len(table) = Len(out)

\* a source that was read, had rows, and yielded no Contact
C3_Witness ==
    pc = "done" /\ exitCode = 1 /\ \E i \in 1..Len(lines) : IsCandidate(i)

-----------------------------------------------------------------------------
(* C4 *)

Rule2(c, sc) ==
    /\ Gt(sc, Num("fin", 12000000))
    /\ Lt(Fx(c.range_km), Num("fin", 2500))
    /\ Gt(Fx(c.closing_mps), Num("fin", 10000))

Rule3(c, sc) ==
    /\ Gt(sc, Num("fin", 8000000))
    /\ Lt(Fx(c.range_km), Num("fin", 5000))

\* C4: the result of suggestion is that of the first matching rule: Friend,
\* then score > 120 and range < 25 and closing > 100, then score > 80 and
\* range < 50, then MONITOR; a value on a threshold does not match.
C4_FirstMatchingRule ==
    pc = "ret" =>
        /\ argA.iff = "Friend" => resA = "IGNORE (FRIEND)"
        /\ (argA.iff # "Friend" /\ Rule2(argA, argB)) => resA = "INTERCEPT"
        /\ (argA.iff # "Friend" /\ ~Rule2(argA, argB) /\ Rule3(argA, argB))
              => resA = "ELEVATED MONITOR"
        /\ (argA.iff # "Friend" /\ ~Rule2(argA, argB) /\ ~Rule3(argA, argB))
              => resA = "MONITOR"
        /\ (argB = Num("fin", 12000000) \/ argA.range_km = Norm(25, 0)
               \/ argA.closing_mps = Norm(100, 0)) => resA # "INTERCEPT"
        /\ (argB = Num("fin", 8000000) \/ argA.range_km = Norm(50, 0))
              => resA \notin {"INTERCEPT", "ELEVATED MONITOR"}

\* a Foe on the 25 km boundary with a score above 120 falls to rule 3
C4_Witness ==
    /\ pc = "ret"
    /\ argA.iff = "Foe"
    /\ argA.range_km = Norm(25, 0)
    /\ argB = Num("fin", 12000001)
    /\ resA = "ELEVATED MONITOR"

-----------------------------------------------------------------------------
(* C5 *)

\* a >= b on scores
Ge(a, b) == a.k # "nan" /\ b.k # "nan" /\ ~Lt(a, b)

\* C5: once sorted, ranked is a rearrangement of the (Contact, score) pairs
\* of out, none dropped or duplicated, with scores non-ascending, and the
\* printed rows follow it.
C5_RankedIsSortedPermutation ==
    pc \in {"sorted", "done"} /\ exitCode \in {-1, 0} /\ out # <<>> =>
        /\ Len(ranked) = Len(out)
        /\ \E p \in Permutations(1..Len(out)) :
              \A i \in 1..Len(out) :
                 /\ rankedSrc[i] = outSrc[p[i]]
                 /\ ranked[i] = [c |-> out[p[i]], s |-> score(out[p[i]], Weights)]
        /\ \A i \in 1..(Len(ranked) - 1) : Ge(ranked[i].s, ranked[i + 1].s)
        /\ pc = "done" =>
              \A i \in 1..Len(ranked) :
                 table[i].rank = i /\ table[i].c = ranked[i].c /\ table[i].s = ranked[i].s

\* three Contacts were ranked, the sort moved one, and two scores are equal
C5_Witness ==
    /\ pc = "sorted"
    /\ Len(ranked) = 3
    /\ rankedSrc # outSrc
    /\ ranked[1].s # ranked[3].s
    /\ \E i \in 1..2 : ranked[i].s = ranked[i + 1].s

-----------------------------------------------------------------------------
(* C6 *)

\* C6: every Contact in out holds a finite value in each numeric field, and
\* holds the field's default wherever the text of the column is not a valid
\* finite number.
C6_NumericFieldsFinite ==
    \A k \in 1..Len(out) :
        \A j \in 3..6 :
            /\ isfinite(NumericField(out[k], j))
            /\ ~IsFiniteNumeral(RowFields(outSrc[k])[j])
                  => NumericField(out[k], j) = NumericDefaults[j - 2]

-----------------------------------------------------------------------------
(* C7 *)

\* C7: a readable input is read to its end without aborting, and the
\* Contacts returned are exactly the data rows not taken as the header, in
\* the order of their lines, each built from its own row.
C7_ExactlyTheDataRows ==
    /\ canOpen => exitCode # 2
    /\ (canOpen /\ pc \notin {"start", "read"}) =>
          /\ idx = Len(lines)
          /\ \A i \in 1..Len(lines) :
                HasContact(i) <=> (IsDataRow(i) /\ ~TakenAsHeader(i))
          /\ \A k \in 1..(Len(outSrc) - 1) : outSrc[k] < outSrc[k + 1]
          /\ \A k \in 1..Len(out) : out[k].id = RowFields(outSrc[k])[1]

-----------------------------------------------------------------------------
(* C10 *)

\* C10: maybeHeader is cleared by the first candidate line and by nothing
\* else, and every data row read after the first candidate line has a
\* Contact, column 3 "range_km" or column 4 "closing_mps" included.
C10_HeaderCheckOnce ==
    /\ pc = "read" =>
          (maybeHeader <=> (FirstCandidate = 0 \/ idx < FirstCandidate))
    /\ \A i \in 1..idx :
          (IsDataRow(i) /\ i > FirstCandidate) => HasContact(i)

-----------------------------------------------------------------------------
(* C9 *)

InBand(x, lo, hi) == Ge(Fx(x), Num("fin", lo)) /\ Ge(Num("fin", hi), Fx(x))

TermLt(a, b) == Lt(a, b)

====
